---- MODULE Spec2Model ----
(***************************************************************************)
(* State-machine model of the stock analysis pipeline of src/main.py:     *)
(* analyze_stock_data and the five stage functions it sequences           *)
(* (identify_ticker, ticker_price, ticker_price_change, ticker_news,      *)
(* summarize_with_groq), with the currency conversion rupees_from_usd.    *)
(*                                                                         *)
(* Python values are tagged records [kind, val].  Amounts of money and    *)
(* percentages are integers counting thousandths, so 150.00 is 150000     *)
(* and round(x, 2) rounds to a multiple of 10.  A raised exception is a   *)
(* value whose kind is the exception's class.                              *)
(***************************************************************************)
EXTENDS Integers, Sequences, FiniteSets, TLC

VARIABLES task, calc, config, health

vars == <<task, calc, config, health>>

(* The invocations of analyze_stock_data a caller can have in hand. *)
Invocations == {1, 2}

(* Longest article list a news response of the model carries. *)
MaxArticles == 2

(* The calculator's small amounts run over the cents 0.00 .. MaxCents / 100. *)
MaxCents == 12

-----------------------------------------------------------------------------
(* Python values *)

None == [kind |-> "None", val |-> 0]
Absent == [kind |-> "absent", val |-> 0]
Num(n) == [kind |-> "num", val |-> n]
Str == [kind |-> "str", val |-> 0]

(* None where a string is expected (ticker, company, error). *)
NoneStr == "<None>"
(* A key a JSON object does not have. *)
NoKey == "<absent>"

(* How a call completes: it returns val (exc = "") or raises exc. *)
Ret(v) == [exc |-> "", val |-> v]
Throw(cls) == [exc |-> cls, val |-> None]

(* dict.get(key): an absent key reads as None. *)
Get(v) == IF v.kind = "absent" THEN None ELSE v

(* Quotient of n by d > 0 rounded to the nearest integer, ties to even. *)
RoundDiv(n, d) ==
    LET q == n \div d
        r == n % d
    IN  IF 2 * r < d THEN q
        ELSE IF 2 * r > d THEN q + 1
        ELSE IF q % 2 = 0 THEN q ELSE q + 1

(* round(x, 2) of an amount in thousandths. *)
Round2(n) == 10 * RoundDiv(n, 10)

conversion_rate == 82

(* str * float raises TypeError; None * float too. *)
(* rupees_from_usd cutting the product off after two decimals. *)
rupees_from_usdTruncate(usd_amount) ==
    IF usd_amount.kind = "num"
    THEN Ret(Num(10 * ((usd_amount.val * conversion_rate) \div 10)))
    ELSE Throw("TypeError")

(* rupees_from_usd with another rate. *)
rupees_from_usdOtherRate(usd_amount) ==
    IF usd_amount.kind = "num"
    THEN Ret(Num(Round2(usd_amount.val * (conversion_rate + 1))))
    ELSE Throw("TypeError")

rupees_from_usd(usd_amount) ==
    IF usd_amount.kind = "num"
    THEN Ret(Num(Round2(usd_amount.val * conversion_rate)))
    ELSE Throw("TypeError")

-----------------------------------------------------------------------------
(* Failure messages of analyze_stock_data, without their leading mark. *)

MsgNotFound ==
    "Couldn't identify a valid company in your query. Please try a different company name or ticker symbol."
MsgNoPrice == "Unable to fetch current price data. Please try again later."
MsgNoChange == "Unable to fetch price change data. Please try again later."
MsgUnexpected(e) == "An unexpected error occurred: " \o e

StageMessages == {MsgNotFound, MsgNoPrice, MsgNoChange}

Failure(msg) == [success |-> FALSE, error |-> msg]
Success(data) == [success |-> TRUE, data |-> data]

-----------------------------------------------------------------------------
(* Stage 1: identify_ticker.  data is the symbol-search response:          *)
(* [fault, count, result]; fault stands for a transport error, a timeout   *)
(* or a body that is not JSON.                                             *)

(* identify_ticker with the count test off by one (>= for >). *)
identify_ticker_bodyCountGe(data) ==
    IF data.fault THEN Throw("ClientError")
    ELSE LET count == IF data.count.kind = "absent" THEN Num(0) ELSE data.count
         IN  IF count.kind # "num" THEN Throw("TypeError")
             ELSE IF count.val >= 0
             THEN IF Len(data.result) = 0 THEN Throw("IndexError")
                  ELSE IF data.result[1].symbol = NoKey \/ data.result[1].description = NoKey
                  THEN Throw("KeyError")
                  ELSE Ret(<<data.result[1].symbol, data.result[1].description>>)
             ELSE Ret(<<NoneStr, NoneStr>>)

(* identify_ticker with the description read from the last match. *)
identify_ticker_bodyLastDescription(data) ==
    IF data.fault THEN Throw("ClientError")
    ELSE LET count == IF data.count.kind = "absent" THEN Num(0) ELSE data.count
         IN  IF count.kind # "num" THEN Throw("TypeError")
             ELSE IF count.val > 0
             THEN IF Len(data.result) = 0 THEN Throw("IndexError")
                  ELSE IF data.result[1].symbol = NoKey
                          \/ data.result[Len(data.result)].description = NoKey
                  THEN Throw("KeyError")
                  ELSE Ret(<<data.result[1].symbol,
                             data.result[Len(data.result)].description>>)
             ELSE Ret(<<NoneStr, NoneStr>>)

identify_ticker_body(data) ==
    IF data.fault THEN Throw("ClientError")
    ELSE LET count == IF data.count.kind = "absent" THEN Num(0) ELSE data.count
         IN  IF count.kind # "num" THEN Throw("TypeError")
             ELSE IF count.val > 0
             THEN IF Len(data.result) = 0 THEN Throw("IndexError")
                  ELSE IF data.result[1].symbol = NoKey \/ data.result[1].description = NoKey
                  THEN Throw("KeyError")
                  ELSE Ret(<<data.result[1].symbol, data.result[1].description>>)
             ELSE Ret(<<NoneStr, NoneStr>>)

(* identify_ticker without its except clause. *)
identify_tickerNoExcept(data) == identify_ticker_body(data)

identify_ticker(data) ==
    LET r == identify_ticker_body(data)
    IN  IF r.exc # "" THEN Ret(<<NoneStr, NoneStr>>) ELSE r

-----------------------------------------------------------------------------
(* Stage 2: ticker_price.  data is the quote response [fault, c, pc]. *)

(* ticker_price reading the price as data.get('c', 0). *)
ticker_price_bodyDefaultZero(data) ==
    IF data.fault THEN Throw("ClientError")
    ELSE Ret(IF data.c.kind = "absent" THEN Num(0) ELSE data.c)

(* ticker_price returning None when either field of the quote is missing. *)
ticker_price_bodyBothFields(data) ==
    IF data.fault THEN Throw("ClientError")
    ELSE IF Get(data.pc).kind = "None" THEN Ret(None)
    ELSE Ret(Get(data.c))

ticker_price_body(data) ==
    IF data.fault THEN Throw("ClientError") ELSE Ret(Get(data.c))

ticker_price(data) ==
    LET r == ticker_price_body(data)
    IN  IF r.exc # "" THEN Ret(None) ELSE r

-----------------------------------------------------------------------------
(* Stage 3: ticker_price_change, on the response of its own quote call. *)

(* round((change / previous_close) * 100, 2), in thousandths of a percent. *)
PercentChange(change, previous_close) ==
    IF previous_close > 0
    THEN 10 * RoundDiv(change * 10000, previous_close)
    ELSE 10 * RoundDiv((0 - change) * 10000, 0 - previous_close)

(* ticker_price_change answering a zero previous close with a zero percent. *)
ticker_price_change_bodyZeroPercent(data) ==
    IF data.fault THEN Throw("ClientError")
    ELSE LET current_price == Get(data.c)
             previous_close == Get(data.pc)
         IN  IF current_price.kind = "None" \/ previous_close.kind = "None"
             THEN Throw("ValueError")
             ELSE IF current_price.kind # "num" \/ previous_close.kind # "num"
             THEN Throw("TypeError")
             ELSE LET change == current_price.val - previous_close.val
                  IN  IF previous_close.val = 0
                      THEN Ret(<<Num(Round2(change)), Num(0)>>)
                      ELSE Ret(<<Num(Round2(change)),
                                 Num(PercentChange(change, previous_close.val))>>)

(* ticker_price_change taking the percent from the rounded change. *)
ticker_price_change_bodyRoundedFirst(data) ==
    IF data.fault THEN Throw("ClientError")
    ELSE LET current_price == Get(data.c)
             previous_close == Get(data.pc)
         IN  IF current_price.kind = "None" \/ previous_close.kind = "None"
             THEN Throw("ValueError")
             ELSE IF current_price.kind # "num" \/ previous_close.kind # "num"
             THEN Throw("TypeError")
             ELSE IF previous_close.val = 0 THEN Throw("ZeroDivisionError")
             ELSE LET change == Round2(current_price.val - previous_close.val)
                  IN  Ret(<<Num(change),
                            Num(PercentChange(change, previous_close.val))>>)

ticker_price_change_body(data) ==
    IF data.fault THEN Throw("ClientError")
    ELSE LET current_price == Get(data.c)
             previous_close == Get(data.pc)
         IN  IF current_price.kind = "None" \/ previous_close.kind = "None"
             THEN Throw("ValueError")
             ELSE IF current_price.kind # "num" \/ previous_close.kind # "num"
             THEN Throw("TypeError")
             ELSE IF previous_close.val = 0 THEN Throw("ZeroDivisionError")
             ELSE LET change == current_price.val - previous_close.val
                  IN  Ret(<<Num(Round2(change)),
                            Num(PercentChange(change, previous_close.val))>>)

ticker_price_change(data) ==
    LET r == ticker_price_change_body(data)
    IN  IF r.exc # "" THEN Ret(<<None, None>>) ELSE r

-----------------------------------------------------------------------------
(* Stage 4: ticker_news.  data is the news response [fault, articles,      *)
(* results]; each of the two keys is [kind, items] with kind "absent",     *)
(* "null", "list" or "str" (a JSON value that is no list).  An article is  *)
(* [title, description], NoKey for a key it lacks.                         *)

MarkerNoRecentNews == "No recent news available."
MarkerNoNews == "No news available."

(* bool(v) of the value under a key. *)
Truthy(v) == \/ v.kind = "str"
             \/ v.kind = "list" /\ Len(v.items) > 0

(* The two keys probed in the other order: results before articles. *)
ArticlesOfPreferResults(data) ==
    IF Truthy(data.results) THEN data.results
    ELSE IF data.articles.kind = "absent" THEN [kind |-> "list", items |-> <<>>]
    ELSE data.articles

(* data.get("articles") or data.get("results", []) *)
ArticlesOf(data) ==
    IF Truthy(data.articles) THEN data.articles
    ELSE IF data.results.kind = "absent" THEN [kind |-> "list", items |-> <<>>]
    ELSE data.results

(* f"{a['title']}. {a.get('description', '')}" *)
ArticleText(a) ==
    a.title \o ". " \o (IF a.description = NoKey THEN "" ELSE a.description)

(* " ".join of the article texts, in the order of the list. *)
RECURSIVE JoinArticles(_)
JoinArticles(articles) ==
    IF Len(articles) = 0 THEN ""
    ELSE IF Len(articles) = 1 THEN ArticleText(articles[1])
    ELSE ArticleText(articles[1]) \o " " \o JoinArticles(Tail(articles))

(* ticker_news without the test for an empty list (lines 134-135). *)
ticker_news_bodyNoEmptyCheck(data) ==
    IF data.fault THEN Throw("ClientError")
    ELSE LET articles == ArticlesOf(data)
         IN  IF articles.kind # "list" THEN Throw("TypeError")
             ELSE IF \E k \in 1..Len(articles.items) : articles.items[k].title = NoKey
             THEN Throw("KeyError")
             ELSE Ret(<<JoinArticles(articles.items), articles.items>>)

(* ticker_news leaving out the articles that have no title. *)
ticker_news_bodySkipUntitled(data) ==
    IF data.fault THEN Throw("ClientError")
    ELSE LET articles == ArticlesOf(data)
         IN  IF ~Truthy(articles) THEN Ret(<<MarkerNoRecentNews, <<>>>>)
             ELSE IF articles.kind # "list" THEN Throw("TypeError")
             ELSE LET titled == SelectSeq(articles.items, LAMBDA a : a.title # NoKey)
                  IN  Ret(<<JoinArticles(titled), titled>>)

ticker_news_body(data) ==
    IF data.fault THEN Throw("ClientError")
    ELSE LET articles == ArticlesOf(data)
         IN  IF ~Truthy(articles) THEN Ret(<<MarkerNoRecentNews, <<>>>>)
             ELSE IF articles.kind # "list" THEN Throw("TypeError")
             ELSE IF \E k \in 1..Len(articles.items) : articles.items[k].title = NoKey
             THEN Throw("KeyError")
             ELSE Ret(<<JoinArticles(articles.items), articles.items>>)

(* ticker_news without its except clause. *)
ticker_newsNoExcept(data) == ticker_news_body(data)

(* ticker_news answering a fault with the marker of an empty list. *)
ticker_newsSameMarker(data) ==
    LET r == ticker_news_body(data)
    IN  IF r.exc # "" THEN Ret(<<MarkerNoRecentNews, <<>>>>) ELSE r

ticker_news(data) ==
    LET r == ticker_news_body(data)
    IN  IF r.exc # "" THEN Ret(<<MarkerNoNews, <<>>>>) ELSE r

-----------------------------------------------------------------------------
(* Stage 5: summarize_with_groq.  response is what groq_client.invoke      *)
(* does: [fault, shape, content]; shape "attr" is an object with a content *)
(* attribute, "dict" a dict with a content key, "other" anything else.     *)

FallbackAnalysis ==
    "Unable to generate detailed analysis at this time. Please try again later."

summarize_with_groq_body(response) ==
    IF response.fault THEN Throw("GroqError")
    ELSE IF response.shape \in {"attr", "dict"} THEN Ret(response.content)
    ELSE Ret("str(response)")

(* summarize_with_groq without its except clause. *)
summarize_with_groqNoExcept(response) == summarize_with_groq_body(response)

summarize_with_groq(response) ==
    LET r == summarize_with_groq_body(response)
    IN  IF r.exc # "" THEN Ret(FallbackAnalysis) ELSE r

-----------------------------------------------------------------------------
(* What the three providers can answer *)

(* What the user types: a company name, the same with a blank before it,  *)
(* and a line of blanks.                                                    *)
Queries == {"Apple", " Apple", "  "}

(* str.strip() on the queries of the model. *)
Strip(q) == IF q = "  " THEN "" ELSE IF q = " Apple" THEN "Apple" ELSE q

mApple == [symbol |-> "AAPL", description |-> "APPLE INC"]
mAppleHosp == [symbol |-> "APLE", description |-> "APPLE HOSPITALITY REIT INC"]
mNoDescription == [symbol |-> "AAPL", description |-> NoKey]
mEmptySymbol == [symbol |-> "", description |-> "APPLE INC"]

SearchFault == [fault |-> TRUE, count |-> Absent, result |-> <<>>]

SearchResponses ==
    {SearchFault}
    \cup {[fault |-> FALSE, count |-> c, result |-> r] :
            c \in {Absent, None, Str, Num(0)}, r \in {<<>>, <<mApple>>}}
    \cup {[fault |-> FALSE, count |-> Num(Len(r)), result |-> r] :
            r \in {<<mApple, mAppleHosp>>, <<mAppleHosp, mApple>>,
                   <<mNoDescription>>, <<mEmptySymbol>>}}
    \cup {[fault |-> FALSE, count |-> Num(1), result |-> <<>>]}

QuoteFault == [fault |-> TRUE, c |-> Absent, pc |-> Absent]

Prices == {0, 150000, 150125}

QuoteResponses ==
    {QuoteFault}
    \cup {[fault |-> FALSE, c |-> c, pc |-> p] :
            c \in {Absent, None, Str} \cup {Num(n) : n \in Prices},
            p \in {Absent, None, Num(0), Num(148000)}}

aFull == [title |-> "T1", description |-> "D1"]
aNoDescription == [title |-> "T2", description |-> NoKey]
aNoTitle == [title |-> NoKey, description |-> "D3"]

Articles == {aFull, aNoDescription, aNoTitle}

RECURSIVE SeqsUpTo(_, _)
SeqsUpTo(S, n) ==
    IF n = 0 THEN {<<>>}
    ELSE LET shorter == SeqsUpTo(S, n - 1)
         IN  shorter \cup {Append(q, x) : q \in shorter, x \in S}

KeyAbsent == [kind |-> "absent", items |-> <<>>]
KeyNull == [kind |-> "null", items |-> <<>>]
KeyStr == [kind |-> "str", items |-> <<>>]
KeyList(l) == [kind |-> "list", items |-> l]

NewsFault == [fault |-> TRUE, articles |-> KeyAbsent, results |-> KeyAbsent]

(* limit=5 in the news request (line 127); the provider may send more. *)
RequestedLimit == 5
OverLimit == [k \in 1..(RequestedLimit + 1) |-> aFull]

NewsKeyValues ==
    {KeyAbsent, KeyNull, KeyStr, KeyList(OverLimit)}
    \cup {KeyList(l) : l \in SeqsUpTo(Articles, MaxArticles)}

(* The values the other key takes while one key ranges over all of them. *)
NewsKeyFew == {KeyAbsent, KeyList(<<>>), KeyList(<<aFull>>)}

NewsResponses ==
    {NewsFault}
    \cup {[fault |-> FALSE, articles |-> a, results |-> r] :
            a \in NewsKeyValues, r \in NewsKeyFew}
    \cup {[fault |-> FALSE, articles |-> a, results |-> r] :
            a \in NewsKeyFew, r \in NewsKeyValues}

GroqFault == [fault |-> TRUE, shape |-> "other", content |-> ""]

GroqResponses ==
    {GroqFault}
    \cup {[fault |-> FALSE, shape |-> sh, content |-> "Analysis"] :
            sh \in {"attr", "dict", "other"}}

-----------------------------------------------------------------------------
(* One invocation of analyze_stock_data *)

NoResult == [pending |-> TRUE]
(* The argument of the provider call that is pending or was made last. *)
NoRequest == [op |-> "none", arg |-> NoneStr]
Request(op, arg) == [op |-> op, arg |-> arg]

(* aiohttp.ClientTimeout(total=10), in seconds, on the four HTTP calls;    *)
(* groq_client is built and invoked with no timeout (lines 43, 162).       *)
ClientTimeoutTotal == 10
HttpTimeout == [kind |-> "num", val |-> ClientTimeoutTotal]

(* What the /analyze endpoint has answered: nothing yet. *)
NoResponse == [status |-> 0, detail |-> NoneStr, data |-> <<>>]
NoPrompt == [news_text |-> "", change |-> None, percent |-> None,
             company |-> NoneStr, ticker |-> NoneStr]

IdleTask ==
    [pc |-> "idle", query |-> "", events |-> <<>>,
     ticker |-> NoneStr, company |-> NoneStr,
     price |-> None, price_inr |-> None,
     change |-> None, percent |-> None, change_inr |-> None,
     news_text |-> "", articles |-> <<>>, prompt |-> NoPrompt,
     search_data |-> SearchFault, price_data |-> QuoteFault,
     change_data |-> QuoteFault, news_data |-> NewsFault,
     groq_response |-> GroqFault,
     result |-> NoResult,
     http |-> NoResponse,
     sent |-> NoRequest,
     timeout |-> None]

CallEv(op) == <<"call", op>>
RetEv(op) == <<"ret", op>>

Called(t, op) == \E k \in 1..Len(t.events) : t.events[k] = CallEv(op)
Returned(t, op) == \E k \in 1..Len(t.events) : t.events[k] = RetEv(op)

(* analyze_stock_data letting the exception out instead of catching it. *)
UnexpectedReraise(t, exc) == [t EXCEPT !.pc = "raised"]

(* The except clause of analyze_stock_data (lines 235-240). *)
Unexpected(t, exc) ==
    [t EXCEPT !.pc = "done", !.result = Failure(MsgUnexpected(exc))]

(* The two pure functions applied on their own: which one, its arguments   *)
(* (thousandths) and what it returned.                                      *)
CalcIdle == [fn |-> "none", x |-> 0, y |-> 0, out |-> <<>>]

(* The module globals set once at import (lines 38-43): the three keys   *)
(* read from the environment, each unset (None), empty or set, and the     *)
(* client bound to the Groq model.                                         *)
KeyValues == {NoneStr, "", "key"}

Configurations ==
    [FINNHUB_API_KEY : KeyValues, TAVILY_API_KEY : KeyValues,
     GROQ_API_KEY : KeyValues, groq_client : {"llama-3.1-8b-instant"}]

ConfiguredAll ==
    [FINNHUB_API_KEY |-> "key", TAVILY_API_KEY |-> "key",
     GROQ_API_KEY |-> "key", groq_client |-> "llama-3.1-8b-instant"]

(* What /health answered last: nothing yet. *)
NoHealth == [status |-> NoneStr, apis_configured |-> <<>>]

Init ==
    /\ task = [i \in Invocations |-> IdleTask]
    /\ calc = CalcIdle
    /\ config = ConfiguredAll
    /\ health = NoHealth

(* The server started under any configuration of the three keys. *)
InitServer ==
    /\ task = [i \in Invocations |-> IdleTask]
    /\ calc = CalcIdle
    /\ config \in Configurations
    /\ health = NoHealth

-----------------------------------------------------------------------------
(* analyze_stock_data, one action per await: each action takes the         *)
(* response the pending call gets and runs the coroutine up to its next    *)
(* provider call or to its return.                                          *)

(* Entry: line 178, identify_ticker sends the symbol search. *)
StartAnalysis(q) ==
    [IdleTask EXCEPT !.pc = "identify_ticker", !.query = q,
                     !.events = <<CallEv("identify_ticker")>>,
                     !.sent = Request("identify_ticker", q),
                     !.timeout = HttpTimeout]

(* Step 1 without the early return of lines 179-183. *)
AfterIdentifyTickerNoReturn(t, data) ==
    LET r == identify_ticker(data)
        t1 == [t EXCEPT !.search_data = data,
                        !.events = Append(@, RetEv("identify_ticker"))]
    IN  IF r.exc # "" THEN Unexpected(t1, r.exc)
        ELSE [t1 EXCEPT !.ticker = r.val[1], !.company = r.val[2],
                        !.pc = "ticker_price",
                        !.events = Append(@, CallEv("ticker_price")),
                        !.sent = Request("ticker_price", r.val[1]),
                        !.timeout = HttpTimeout]

(* Step 1 sending the symbol search a second time when the first finds   *)
(* no ticker.                                                              *)
AfterIdentifyTickerRetry(t, data) ==
    LET r == identify_ticker(data)
        t1 == [t EXCEPT !.search_data = data,
                        !.events = Append(@, RetEv("identify_ticker"))]
    IN  IF r.exc # "" THEN Unexpected(t1, r.exc)
        ELSE LET ticker == r.val[1]
                 company == r.val[2]
                 t2 == [t1 EXCEPT !.ticker = ticker, !.company = company]
             IN  IF ticker \in {NoneStr, ""}
                 THEN IF Len(t1.events) = 2
                      THEN [t1 EXCEPT !.events = Append(@, CallEv("identify_ticker"))]
                      ELSE [t2 EXCEPT !.pc = "done", !.result = Failure(MsgNotFound)]
                 ELSE [t2 EXCEPT !.pc = "ticker_price",
                                 !.events = Append(@, CallEv("ticker_price")),
                                 !.sent = Request("ticker_price", ticker),
                                 !.timeout = HttpTimeout]

(* Lines 178-188: step 1, then the call of ticker_price. *)
AfterIdentifyTicker(t, data) ==
    LET r == identify_ticker(data)
        t1 == [t EXCEPT !.search_data = data,
                        !.events = Append(@, RetEv("identify_ticker"))]
    IN  IF r.exc # "" THEN Unexpected(t1, r.exc)
        ELSE LET ticker == r.val[1]
                 company == r.val[2]
                 t2 == [t1 EXCEPT !.ticker = ticker, !.company = company]
             IN  IF ticker \in {NoneStr, ""}
                 THEN [t2 EXCEPT !.pc = "done", !.result = Failure(MsgNotFound)]
                 ELSE [t2 EXCEPT !.pc = "ticker_price",
                                 !.events = Append(@, CallEv("ticker_price")),
                                 !.sent = Request("ticker_price", ticker),
                                 !.timeout = HttpTimeout]

(* Step 2 starting the price-change call and the news call together. *)
AfterTickerPriceFanOut(t, data) ==
    LET r == ticker_price(data)
        t1 == [t EXCEPT !.price_data = data,
                        !.events = Append(@, RetEv("ticker_price"))]
    IN  IF r.exc # "" THEN Unexpected(t1, r.exc)
        ELSE LET price == r.val
                 t2 == [t1 EXCEPT !.price = price]
             IN  IF price.kind = "None"
                 THEN [t2 EXCEPT !.pc = "done", !.result = Failure(MsgNoPrice)]
                 ELSE LET price_inr == rupees_from_usd(price)
                      IN  IF price_inr.exc # "" THEN Unexpected(t2, price_inr.exc)
                          ELSE [t2 EXCEPT !.price_inr = price_inr.val,
                                          !.pc = "ticker_price_change",
                                          !.events = @ \o <<CallEv("ticker_price_change"),
                                                            CallEv("ticker_news")>>,
                                          !.sent = Request("ticker_price_change", t.ticker),
                                          !.timeout = HttpTimeout]

(* Lines 188-199: step 2, then the call of ticker_price_change. *)
AfterTickerPrice(t, data) ==
    LET r == ticker_price(data)
        t1 == [t EXCEPT !.price_data = data,
                        !.events = Append(@, RetEv("ticker_price"))]
    IN  IF r.exc # "" THEN Unexpected(t1, r.exc)
        ELSE LET price == r.val
                 t2 == [t1 EXCEPT !.price = price]
             IN  IF price.kind = "None"
                 THEN [t2 EXCEPT !.pc = "done", !.result = Failure(MsgNoPrice)]
                 ELSE LET price_inr == rupees_from_usd(price)
                      IN  IF price_inr.exc # "" THEN Unexpected(t2, price_inr.exc)
                          ELSE [t2 EXCEPT !.price_inr = price_inr.val,
                                          !.pc = "ticker_price_change",
                                          !.events = Append(@, CallEv("ticker_price_change")),
                                          !.sent = Request("ticker_price_change", t.ticker),
                                          !.timeout = HttpTimeout]

(* Lines 199-211: step 3, then the call of ticker_news. *)
AfterTickerPriceChange(t, data) ==
    LET r == ticker_price_change(data)
        t1 == [t EXCEPT !.change_data = data,
                        !.events = Append(@, RetEv("ticker_price_change"))]
    IN  IF r.exc # "" THEN Unexpected(t1, r.exc)
        ELSE IF r.val[1].kind = "None"
        THEN [t1 EXCEPT !.pc = "done", !.result = Failure(MsgNoChange)]
        ELSE LET change == r.val[1]
                 percent == r.val[2]
                 change_inr == rupees_from_usd(change)
                 t2 == [t1 EXCEPT !.change = change, !.percent = percent]
             IN  IF change_inr.exc # "" THEN Unexpected(t2, change_inr.exc)
                 ELSE [t2 EXCEPT !.change_inr = change_inr.val,
                                 !.pc = "ticker_news",
                                 !.events = Append(@, CallEv("ticker_news")),
                                 !.sent = Request("ticker_news", t.company),
                                 !.timeout = HttpTimeout]

(* Lines 211-214: step 4, then the call of summarize_with_groq. *)
AfterTickerNews(t, data) ==
    LET r == ticker_news(data)
        t1 == [t EXCEPT !.news_data = data,
                        !.events = Append(@, RetEv("ticker_news"))]
    IN  IF r.exc # "" THEN Unexpected(t1, r.exc)
        ELSE [t1 EXCEPT !.news_text = r.val[1],
                        !.articles = r.val[2],
                        !.prompt = [news_text |-> r.val[1],
                                    change |-> t.change,
                                    percent |-> t.percent,
                                    company |-> t.company,
                                    ticker |-> t.ticker],
                        !.pc = "summarize_with_groq",
                        !.events = Append(@, CallEv("summarize_with_groq")),
                        !.sent = Request("summarize_with_groq", t.company),
                        !.timeout = None]

(* Lines 214-233: the analysis and the structured response. *)
AfterSummarize(t, response) ==
    LET r == summarize_with_groq(response)
        t1 == [t EXCEPT !.groq_response = response,
                        !.events = Append(@, RetEv("summarize_with_groq"))]
    IN  IF r.exc # "" THEN Unexpected(t1, r.exc)
        ELSE [t1 EXCEPT
                !.pc = "done",
                !.result = Success(
                    [company |-> t.company,
                     ticker |-> t.ticker,
                     price |-> Num(Round2(t.price.val)),
                     price_inr |-> t.price_inr,
                     change |-> Num(Round2(t.change.val)),
                     change_inr |-> t.change_inr,
                     percent |-> Num(Round2(t.percent.val)),
                     analysis |-> r.val,
                     news_articles |-> Len(t1.articles),
                     timestamp |-> Len(t1.events)])]

-----------------------------------------------------------------------------
(* Actions *)

(* The event loop runs one coroutine at a time, and the completion call of *)
(* summarize_with_groq (line 162) is an ordinary blocking call made on the *)
(* loop's thread (line 214): while an invocation is inside it, no other    *)
(* coroutine of the loop runs.                                             *)
LoopFree(i) ==
    \A j \in Invocations \ {i} : task[j].pc # "summarize_with_groq"

(* The CLI loop: asyncio.run(analyze_stock_data(query)) runs one invocation *)
(* to its end before the next query is read; the query goes in as typed.   *)
analyze_stock_cli(i, q) ==
    /\ \A j \in Invocations : task[j].pc = "idle" /\ i <= j
    /\ task' = [task EXCEPT ![i] = StartAnalysis(q)]
    /\ UNCHANGED <<calc, config, health>>

(* The search response kept in one place for every invocation: all that  *)
(* wait for the symbol search take the response one of them got.           *)
ResolveTickerShared(i, data) ==
    /\ task[i].pc = "identify_ticker"
    /\ LoopFree(i)
    /\ task' = [j \in Invocations |->
                  IF task[j].pc = "identify_ticker"
                  THEN AfterIdentifyTicker(task[j], data)
                  ELSE task[j]]
    /\ UNCHANGED <<calc, config, health>>

ResolveTicker(i, data) ==
    /\ task[i].pc = "identify_ticker"
    /\ LoopFree(i)
    /\ task' = [task EXCEPT ![i] = AfterIdentifyTicker(task[i], data)]
    /\ UNCHANGED <<calc, config, health>>

FetchQuote(i, data) ==
    /\ task[i].pc = "ticker_price"
    /\ LoopFree(i)
    /\ task' = [task EXCEPT ![i] = AfterTickerPrice(task[i], data)]
    /\ UNCHANGED <<calc, config, health>>

ComputeChange(i, data) ==
    /\ task[i].pc = "ticker_price_change"
    /\ LoopFree(i)
    /\ task' = [task EXCEPT ![i] = AfterTickerPriceChange(task[i], data)]
    /\ UNCHANGED <<calc, config, health>>

FetchNews(i, data) ==
    /\ task[i].pc = "ticker_news"
    /\ LoopFree(i)
    /\ task' = [task EXCEPT ![i] = AfterTickerNews(task[i], data)]
    /\ UNCHANGED <<calc, config, health>>

Summarize(i, response) ==
    /\ task[i].pc = "summarize_with_groq"
    /\ task' = [task EXCEPT ![i] = AfterSummarize(task[i], response)]
    /\ UNCHANGED <<calc, config, health>>

(* The caller has printed the result; the invocation is over. *)
PrintResult(i) ==
    /\ task[i].pc = "done"
    /\ task' = [task EXCEPT ![i] = IdleTask]
    /\ UNCHANGED <<calc, config, health>>

Next ==
    \E i \in Invocations :
        \/ \E q \in Queries : analyze_stock_cli(i, q)
        \/ \E data \in SearchResponses : ResolveTicker(i, data)
        \/ \E data \in QuoteResponses : FetchQuote(i, data)
        \/ \E data \in QuoteResponses : ComputeChange(i, data)
        \/ \E data \in NewsResponses : FetchNews(i, data)
        \/ \E response \in GroqResponses : Summarize(i, response)
        \/ PrintResult(i)

Spec == Init /\ [][Next]_vars

-----------------------------------------------------------------------------
(* The API server: requests to POST /analyze are coroutines of one event   *)
(* loop and run interleaved.                                               *)

(* A match whose description is JSON null. *)
mNullDescription == [symbol |-> "AAPL", description |-> NoneStr]

ServerSearchResponses ==
    {SearchFault,
     [fault |-> FALSE, count |-> Num(2), result |-> <<mApple, mAppleHosp>>],
     [fault |-> FALSE, count |-> Num(1), result |-> <<mNullDescription>>]}

ServerQuoteResponses ==
    {QuoteFault,
     [fault |-> FALSE, c |-> Num(150000), pc |-> Num(148000)],
     [fault |-> FALSE, c |-> Str, pc |-> Num(148000)]}

ServerNewsResponses ==
    {NewsFault,
     [fault |-> FALSE, articles |-> KeyList(<<aFull>>), results |-> KeyAbsent]}

ServerGroqResponses ==
    {GroqFault, [fault |-> FALSE, shape |-> "attr", content |-> "Analysis"]}

(* Lines 849-855: the empty query is refused, any other is stripped and    *)
(* handed to analyze_stock_data.                                           *)
analyze_stock_endpoint(i, q) ==
    /\ task[i].pc = "idle"
    /\ LoopFree(i)
    /\ task' = [task EXCEPT ![i] =
            IF Strip(q) = ""
            THEN [IdleTask EXCEPT
                    !.pc = "responded", !.query = q,
                    !.http = [status |-> 400,
                              detail |-> "Query parameter cannot be empty",
                              data |-> <<>>]]
            ELSE StartAnalysis(Strip(q))]
    /\ UNCHANGED <<calc, config, health>>

(* The endpoint without the clause of lines 867-868 that lets its own     *)
(* HTTPException through: the catch-all turns the 400 into a 500.          *)
EndpointResponseNoReraise(result) ==
    IF "data" \in DOMAIN result /\ result.success
    THEN IF result.data.company = NoneStr
         THEN [status |-> 500, detail |-> "Internal server error", data |-> <<>>]
         ELSE [status |-> 200, detail |-> NoneStr, data |-> result.data]
    ELSE [status |-> 500, detail |-> "Internal server error", data |-> <<>>]

(* Lines 857-871: the response built from what analyze_stock_data         *)
(* returned; the StockData model refuses a company that is None (line 50). *)
EndpointResponse(result) ==
    IF "data" \in DOMAIN result /\ result.success
    THEN IF result.data.company = NoneStr
         THEN [status |-> 500, detail |-> "Internal server error", data |-> <<>>]
         ELSE [status |-> 200, detail |-> NoneStr, data |-> result.data]
    ELSE [status |-> 400, detail |-> result.error, data |-> <<>>]

Respond(i) ==
    /\ task[i].pc = "done"
    /\ task' = [task EXCEPT ![i].pc = "responded",
                            ![i].http = EndpointResponse(task[i].result)]
    /\ UNCHANGED <<calc, config, health>>

(* The response is sent and the request is over. *)
CloseRequest(i) ==
    /\ task[i].pc = "responded"
    /\ task' = [task EXCEPT ![i] = IdleTask]
    /\ UNCHANGED <<calc, config, health>>

(* bool(KEY) of a key read with os.getenv. *)
KeyPresent(k) == k \notin {NoneStr, ""}

(* health_check taking "set" for "present": an empty key counts. *)
HealthResponseNotNone(cfg) ==
    [status |-> "healthy",
     apis_configured |-> [finnhub |-> cfg.FINNHUB_API_KEY # NoneStr,
                          tavily |-> cfg.TAVILY_API_KEY # NoneStr,
                          groq |-> cfg.GROQ_API_KEY # NoneStr]]

(* Lines 875-884: the body of the health answer (the timestamp left out). *)
HealthResponse(cfg) ==
    [status |-> "healthy",
     apis_configured |-> [finnhub |-> KeyPresent(cfg.FINNHUB_API_KEY),
                          tavily |-> KeyPresent(cfg.TAVILY_API_KEY),
                          groq |-> KeyPresent(cfg.GROQ_API_KEY)]]

(* GET /health, a handler of the same event loop. *)
health_check ==
    /\ \A j \in Invocations : task[j].pc # "summarize_with_groq"
    /\ health' = HealthResponse(config)
    /\ UNCHANGED <<task, calc, config>>

NextServer ==
    \/ health_check
    \/ \E i \in Invocations :
        \/ \E q \in Queries : analyze_stock_endpoint(i, q)
        \/ \E data \in ServerSearchResponses : ResolveTicker(i, data)
        \/ \E data \in ServerQuoteResponses : FetchQuote(i, data)
        \/ \E data \in ServerQuoteResponses : ComputeChange(i, data)
        \/ \E data \in ServerNewsResponses : FetchNews(i, data)
        \/ \E response \in ServerGroqResponses : Summarize(i, response)
        \/ Respond(i)
        \/ CloseRequest(i)

SpecServer == InitServer /\ [][NextServer]_vars

-----------------------------------------------------------------------------
(* The pure functions on their own: ticker_price_change on a quote with    *)
(* both fields numeric, and rupees_from_usd, over a set of amounts.        *)

SmallAmounts == {10 * k : k \in 0..MaxCents}

SmallPrices == SmallAmounts \cup {5, 15}
LargePrices == {148000, 150000, 150125}

(* (current, previous close): every pair but a large price over a small    *)
(* close, whose percent leaves the integers the checker computes with.     *)
CalcQuotes ==
    (SmallPrices \X SmallPrices) \cup ((SmallPrices \cup LargePrices) \X LargePrices)

CalcAmounts ==
    SmallAmounts \cup {0 - a : a \in SmallAmounts}
    \cup {1, 4, 5, 0 - 1, 0 - 4, 2000, 0 - 2125, 150000, 150125}

Apply_ticker_price_change(c, p) ==
    /\ calc.fn = "none"
    /\ calc' = [fn |-> "ticker_price_change", x |-> c, y |-> p,
                out |-> ticker_price_change(
                            [fault |-> FALSE, c |-> Num(c), pc |-> Num(p)]).val]
    /\ UNCHANGED <<task, config, health>>

Apply_rupees_from_usd(usd) ==
    /\ calc.fn = "none"
    /\ calc' = [fn |-> "rupees_from_usd", x |-> usd, y |-> 0,
                out |-> <<rupees_from_usd(Num(usd)).val>>]
    /\ UNCHANGED <<task, config, health>>

CalcReset ==
    /\ calc.fn # "none"
    /\ calc' = CalcIdle
    /\ UNCHANGED <<task, config, health>>

NextCalc ==
    \/ \E quote \in CalcQuotes : Apply_ticker_price_change(quote[1], quote[2])
    \/ \E usd \in CalcAmounts : Apply_rupees_from_usd(usd)
    \/ CalcReset

SpecCalc == Init /\ [][NextCalc]_vars

TypeOK ==
    \A i \in Invocations :
        task[i].pc \in {"idle", "identify_ticker", "ticker_price", "ticker_price_change",
                        "ticker_news", "summarize_with_groq", "done", "responded"}

-----------------------------------------------------------------------------
(* Vocabulary of the properties *)

IsFailure(res) == "error" \in DOMAIN res /\ res.success = FALSE
IsSuccess(res) == "data" \in DOMAIN res /\ res.success = TRUE

Stage1Failed(t) == Returned(t, "identify_ticker") /\ t.ticker \in {NoneStr, ""}
Stage2Failed(t) == Returned(t, "ticker_price") /\ t.price.kind = "None"
Stage3Failed(t) == Returned(t, "ticker_price_change") /\ t.change.kind = "None"

(* The symbol search answered and reported no match. *)
ZeroMatches(t) ==
    /\ Returned(t, "identify_ticker")
    /\ ~t.search_data.fault
    /\ t.search_data.count = Num(0)

-----------------------------------------------------------------------------
(* C1: whenever the symbol search reports zero matches, analyze_stock_data *)
(* has returned the Failure carrying the not-found message; no quote, news *)
(* or summarizer answer has any part in it.                                *)
C1_ZeroMatchesNotFound ==
    \A i \in Invocations :
        ZeroMatches(task[i]) =>
            /\ task[i].pc = "done"
            /\ task[i].result = Failure(MsgNotFound)

C1_Witness ==
    \E i \in Invocations :
        /\ ZeroMatches(task[i])
        /\ task[i].search_data.result = <<mApple>>
        /\ task[i].result = Failure(MsgNotFound)

(* C2: short-circuit.  After a failed stage no provider call of a later    *)
(* stage exists: none at all after a failed resolution, no price-change,   *)
(* news or summarizer call after a failed FetchQuote, no news or           *)
(* summarizer call after a failed ComputeChange; and a Failure is returned *)
(* with no call pending.                                                   *)
C2_ShortCircuit ==
    \A i \in Invocations :
        LET t == task[i]
        IN  /\ Stage1Failed(t) =>
                  /\ ~Called(t, "ticker_price")
                  /\ ~Called(t, "ticker_price_change")
                  /\ ~Called(t, "ticker_news")
                  /\ ~Called(t, "summarize_with_groq")
            /\ Stage2Failed(t) =>
                  /\ ~Called(t, "ticker_price_change")
                  /\ ~Called(t, "ticker_news")
                  /\ ~Called(t, "summarize_with_groq")
            /\ Stage3Failed(t) =>
                  /\ ~Called(t, "ticker_news")
                  /\ ~Called(t, "summarize_with_groq")
            /\ IsFailure(t.result) =>
                  /\ t.pc = "done"
                  /\ t.events[Len(t.events)][1] = "ret"

C2_Witness ==
    \E i \in Invocations :
        /\ Stage3Failed(task[i])
        /\ task[i].pc = "done"
        /\ task[i].result = Failure(MsgNoChange)
        /\ ~Called(task[i], "ticker_news")

(* C3: once ComputeChange has succeeded (the news call has been made) the  *)
(* invocation never fails: it is waiting for news or for the summary, or   *)
(* it has returned Success, whatever the news provider and the summarizer  *)
(* did.                                                                     *)
C3_SuccessAfterStage3 ==
    \A i \in Invocations :
        Called(task[i], "ticker_news") =>
            \/ /\ task[i].pc \in {"ticker_news", "summarize_with_groq"}
               /\ task[i].result = NoResult
            \/ /\ task[i].pc = "done"
               /\ IsSuccess(task[i].result)

C3_Witness ==
    \E i \in Invocations :
        /\ task[i].pc = "done"
        /\ Returned(task[i], "ticker_news")
        /\ task[i].news_data.fault
        /\ task[i].groq_response.fault
        /\ IsSuccess(task[i].result)

(* C4: every Failure carries one of the three fixed stage messages, so no  *)
(* Failure message holds the text of a raised exception.                   *)
C4_OnlyStageMessages ==
    \A i \in Invocations :
        IsFailure(task[i].result) => task[i].result.error \in StageMessages

(* C5: the ticker is resolved and the quote read by ticker_price has no    *)
(* current price (key absent, or null): Failure "Unable to fetch current   *)
(* price data".                                                            *)
NoCurrentPrice(t) ==
    /\ Returned(t, "ticker_price")
    /\ ~t.price_data.fault
    /\ t.price_data.c \in {Absent, None}

C5_NoCurrentPrice ==
    \A i \in Invocations :
        NoCurrentPrice(task[i]) =>
            /\ task[i].pc = "done"
            /\ task[i].result = Failure(MsgNoPrice)

C5_Witness ==
    \E i \in Invocations :
        /\ NoCurrentPrice(task[i])
        /\ task[i].price_data.c = Absent
        /\ task[i].ticker = "AAPL"
        /\ task[i].result = Failure(MsgNoPrice)

(* C6: the quote read by ticker_price_change has a current price and a     *)
(* previous close of 0: ticker_price_change gives its failure signal (no   *)
(* change, no percent), and the outcome is the Failure "Unable to fetch    *)
(* price change data", not the unexpected-error Failure and not a Success. *)
ZeroPreviousClose(t) ==
    /\ Returned(t, "ticker_price_change")
    /\ ~t.change_data.fault
    /\ t.change_data.c \notin {Absent, None}
    /\ t.change_data.pc = Num(0)

C6_ZeroPreviousClose ==
    \A i \in Invocations :
        ZeroPreviousClose(task[i]) =>
            /\ task[i].change = None
            /\ task[i].percent = None
            /\ task[i].pc = "done"
            /\ task[i].result = Failure(MsgNoChange)

C6_Witness ==
    \E i \in Invocations :
        /\ ZeroPreviousClose(task[i])
        /\ task[i].change_data.c = Num(150000)
        /\ task[i].result = Failure(MsgNoChange)

(* C7 as stated: ticker_price returns None whenever the current price or   *)
(* the previous close is missing from the quote it reads, and the outcome  *)
(* is the FetchQuote Failure.                                              *)
C7_EitherFieldFailsFetchQuote ==
    \A i \in Invocations :
        ( /\ Returned(task[i], "ticker_price")
          /\ \/ task[i].price_data.c \in {Absent, None}
             \/ task[i].price_data.pc \in {Absent, None} )
        => /\ task[i].price = None
           /\ task[i].result = Failure(MsgNoPrice)

(* C7 amended: ticker_price returns None exactly when the current price is *)
(* missing from the quote it reads (or the call faults) and returns the    *)
(* current price otherwise, whatever the previous close; a missing         *)
(* previous close is found by ticker_price_change, on the quote it reads,  *)
(* and fails the pipeline at ComputeChange with "Unable to fetch price     *)
(* change data".                                                           *)
C7_MissingFieldFailsItsStage ==
    \A i \in Invocations :
        LET t == task[i]
        IN  /\ Returned(t, "ticker_price") =>
                  IF t.price_data.fault \/ t.price_data.c \in {Absent, None}
                  THEN t.price = None /\ t.result = Failure(MsgNoPrice)
                  ELSE t.price = t.price_data.c
            /\ ( /\ Returned(t, "ticker_price_change")
                 /\ \/ t.change_data.c \in {Absent, None}
                    \/ t.change_data.pc \in {Absent, None} )
               => t.pc = "done" /\ t.result = Failure(MsgNoChange)

C7_Witness ==
    \E i \in Invocations :
        /\ Returned(task[i], "ticker_price_change")
        /\ task[i].price_data.pc = Absent
        /\ task[i].price = Num(150000)
        /\ task[i].change_data.c = Num(150000)
        /\ task[i].change_data.pc = Absent
        /\ task[i].result = Failure(MsgNoChange)

(* C8: the completion call raised: summarize_with_groq returned the fixed  *)
(* fallback text, nothing propagated, and the outcome is a Success whose   *)
(* analysis is that fallback.                                              *)
C8_SummarizerFallback ==
    \A i \in Invocations :
        ( /\ Returned(task[i], "summarize_with_groq")
          /\ task[i].groq_response.fault )
        => /\ task[i].pc = "done"
           /\ IsSuccess(task[i].result)
           /\ task[i].result.data.analysis = FallbackAnalysis

C8_Witness ==
    \E i \in Invocations :
        /\ Returned(task[i], "summarize_with_groq")
        /\ task[i].groq_response.fault
        /\ Len(task[i].articles) = 2
        /\ task[i].result.data.analysis = FallbackAnalysis

(* C9: the news answer has no article (both keys absent, null or an empty  *)
(* list): the text handed to the summarizer is "No recent news             *)
(* available.", and the outcome, once returned, is a Success with          *)
(* news_articles = 0.                                                      *)
NoArticles(v) == v.kind \in {"absent", "null"} \/ v = KeyList(<<>>)

EmptyNews(t) ==
    /\ Returned(t, "ticker_news")
    /\ ~t.news_data.fault
    /\ NoArticles(t.news_data.articles)
    /\ NoArticles(t.news_data.results)

C9_EmptyNews ==
    \A i \in Invocations :
        EmptyNews(task[i]) =>
            /\ task[i].prompt.news_text = MarkerNoRecentNews
            /\ \/ task[i].pc = "summarize_with_groq"
               \/ /\ task[i].pc = "done"
                  /\ IsSuccess(task[i].result)
                  /\ task[i].result.data.news_articles = 0

C9_Witness ==
    \E i \in Invocations :
        /\ EmptyNews(task[i])
        /\ task[i].news_data.articles = KeyAbsent
        /\ task[i].news_data.results = KeyList(<<>>)
        /\ task[i].pc = "done"
        /\ task[i].result.data.news_articles = 0

(* The news call faulted (transport error, timeout, body that is not       *)
(* JSON) or its answer is malformed: the value under the key is no list,   *)
(* or an article has no title.                                             *)
MalformedNews(t) ==
    /\ Returned(t, "ticker_news")
    /\ \/ t.news_data.fault
       \/ LET a == IF t.news_data.articles.kind = "str"
                      \/ (t.news_data.articles.kind = "list"
                          /\ t.news_data.articles.items # <<>>)
                   THEN t.news_data.articles
                   ELSE t.news_data.results
          IN  \/ a.kind = "str"
              \/ \E k \in 1..Len(a.items) : a.items[k].title = NoKey

(* C10 as stated: a faulting or malformed news answer gives the pair an    *)
(* empty article list gives, ("No recent news available.", []).            *)
C10_FaultSameAsEmpty ==
    \A i \in Invocations :
        MalformedNews(task[i]) =>
            /\ task[i].news_text = MarkerNoRecentNews
            /\ task[i].articles = <<>>

(* C10 amended: a faulting or malformed news answer gives zero articles,   *)
(* as an empty list does, but the text "No news available.", which is not  *)
(* the text of an empty list; the outcome, once returned, is a Success     *)
(* with news_articles = 0.                                                 *)
C10_FaultZeroArticlesOtherMarker ==
    \A i \in Invocations :
        MalformedNews(task[i]) =>
            /\ task[i].articles = <<>>
            /\ task[i].news_text = MarkerNoNews
            /\ task[i].news_text # MarkerNoRecentNews
            /\ task[i].prompt.news_text = MarkerNoNews
            /\ \/ task[i].pc = "summarize_with_groq"
               \/ /\ task[i].pc = "done"
                  /\ IsSuccess(task[i].result)
                  /\ task[i].result.data.news_articles = 0

C10_Witness ==
    \E i \in Invocations :
        /\ MalformedNews(task[i])
        /\ ~task[i].news_data.fault
        /\ task[i].news_data.articles = KeyList(<<aFull, aNoTitle>>)
        /\ task[i].pc = "done"
        /\ task[i].result.data.news_articles = 0

-----------------------------------------------------------------------------
Abs(n) == IF n < 0 THEN 0 - n ELSE n

(* C11: for every current price and every previous close other than 0,    *)
(* ticker_price_change returns the difference rounded to two decimals and  *)
(* the percent (current - previous) / previous * 100 rounded to two        *)
(* decimals: each is a multiple of 0.01 at most half a hundredth away from *)
(* the exact value, the exact percent being that of the unrounded          *)
(* difference.                                                             *)
C11_ChangeAndPercent ==
    (calc.fn = "ticker_price_change" /\ calc.y # 0) =>
        LET diff == calc.x - calc.y
            change == calc.out[1]
            percent == calc.out[2]
        IN  /\ change.kind = "num" /\ percent.kind = "num"
            /\ change.val % 10 = 0
            /\ Abs(change.val - diff) <= 5
            /\ percent.val % 10 = 0
            /\ 2 * Abs((percent.val \div 10) * calc.y - diff * 10000) <= calc.y

C11_Witness ==
    /\ calc.fn = "ticker_price_change"
    /\ calc.x = 150125 /\ calc.y = 148000
    /\ calc.out = <<Num(2120), Num(1440)>>

(* C12: rupees_from_usd(x) is x * 82 rounded to two decimals, a multiple   *)
(* of 0.01 less than half a hundredth away from x * 82, for positive,      *)
(* negative and zero x, and rupees_from_usd(0) = 0.                        *)
C12_RupeesFromUsd ==
    calc.fn = "rupees_from_usd" =>
        /\ calc.out[1].kind = "num"
        /\ calc.out[1].val % 10 = 0
        /\ Abs(calc.out[1].val - calc.x * 82) <= 5
        /\ calc.x = 0 => calc.out[1].val = 0

C12_Witness ==
    /\ calc.fn = "rupees_from_usd"
    /\ calc.x = 0 - 4
    /\ calc.out = <<Num(0 - 330)>>

(* C13: on every Success the numbers agree with one another: price_inr is *)
(* the quote's price (as returned, not rounded) times 82 to two decimals,  *)
(* change is the two-decimal difference of the quote ticker_price_change   *)
(* read, change_inr is change times 82, percent has two decimals; and for  *)
(* current = 150.00, previous = 148.00: change 2.00, percent 1.35,         *)
(* price_inr 12300.0, change_inr 164.0.                                    *)
C13_NumbersConsistent ==
    \A i \in Invocations :
        IsSuccess(task[i].result) =>
            LET d == task[i].result.data
                quoted == task[i].price_data.c.val
                diff == task[i].change_data.c.val - task[i].change_data.pc.val
            IN  /\ d.price_inr.val % 10 = 0
                /\ Abs(d.price_inr.val - quoted * 82) <= 5
                /\ d.price.val % 10 = 0
                /\ Abs(d.price.val - quoted) <= 5
                /\ d.change.val % 10 = 0
                /\ Abs(d.change.val - diff) <= 5
                /\ d.change_inr.val = d.change.val * 82
                /\ d.percent.val % 10 = 0
                /\ ( /\ quoted = 150000
                     /\ task[i].change_data.c = Num(150000)
                     /\ task[i].change_data.pc = Num(148000) )
                   => /\ d.change = Num(2000)
                      /\ d.percent = Num(1350)
                      /\ d.price_inr = Num(12300000)
                      /\ d.change_inr = Num(164000)

C13_Witness ==
    \E i \in Invocations :
        /\ IsSuccess(task[i].result)
        /\ task[i].price_data.c = Num(150000)
        /\ task[i].change_data.c = Num(150000)
        /\ task[i].change_data.pc = Num(148000)
        /\ task[i].result.data.price_inr = Num(12300000)
        /\ task[i].result.data.percent = Num(1350)

(* C14: analyze_stock_data never raises, and what it returns has exactly   *)
(* one variant: success = TRUE with a data record of the ten fields and no *)
(* error, or success = FALSE with an error message and no data.            *)
DataFields ==
    {"company", "ticker", "price", "price_inr", "change", "change_inr",
     "percent", "analysis", "news_articles", "timestamp"}

C14_OneVariant ==
    \A i \in Invocations :
        /\ task[i].pc \in {"idle", "identify_ticker", "ticker_price",
                           "ticker_price_change", "ticker_news",
                           "summarize_with_groq", "done"}
        /\ task[i].pc # "done" => task[i].result = NoResult
        /\ task[i].pc = "done" =>
              \/ /\ DOMAIN task[i].result = {"success", "data"}
                 /\ task[i].result.success = TRUE
                 /\ DOMAIN task[i].result.data = DataFields
              \/ /\ DOMAIN task[i].result = {"success", "error"}
                 /\ task[i].result.success = FALSE
                 /\ task[i].result.error # NoneStr

C14_Witness ==
    \E i \in Invocations :
        /\ task[i].pc = "done"
        /\ task[i].result.success = FALSE
        /\ task[i].result.error = MsgUnexpected("TypeError")

(* C15: the completion call does not block the event loop: while one      *)
(* invocation waits inside summarize_with_groq, another request of the     *)
(* same loop can still take its next step, that is be accepted, or, when   *)
(* it waits for a provider, go on with the answer.                         *)
C15_LoopNotBlocked ==
    \A i \in Invocations : \A j \in Invocations \ {i} :
        task[i].pc = "summarize_with_groq" =>
            /\ task[j].pc = "idle" =>
                  ENABLED (\E q \in Queries : analyze_stock_endpoint(j, q))
            /\ task[j].pc = "identify_ticker" =>
                  ENABLED (\E data \in ServerSearchResponses : ResolveTicker(j, data))
            /\ task[j].pc = "ticker_price" =>
                  ENABLED (\E data \in ServerQuoteResponses : FetchQuote(j, data))
            /\ task[j].pc = "ticker_price_change" =>
                  ENABLED (\E data \in ServerQuoteResponses : ComputeChange(j, data))
            /\ task[j].pc = "ticker_news" =>
                  ENABLED (\E data \in ServerNewsResponses : FetchNews(j, data))

(* C16: every pending provider call runs under the fixed per-call timeout *)
(* of 10 seconds, so that no invocation waits for a provider for ever.     *)
C16_EveryCallTimed ==
    \A i \in Invocations :
        task[i].pc \in {"identify_ticker", "ticker_price", "ticker_price_change",
                        "ticker_news", "summarize_with_groq"}
        => task[i].timeout = HttpTimeout

(* C17: a query that is empty after trimming never reaches a provider:  *)
(* an invocation entered with such a query has made no call at all.        *)
C17_BlankQueryRejected ==
    \A i \in Invocations :
        task[i].pc # "idle" /\ Strip(task[i].query) = ""
        => task[i].events = <<>>

(* The first ranked match of the resolver response an invocation holds. *)
FirstMatch(t) == t.search_data.result[1]

(* An invocation whose resolution succeeded: it went on to the quote. *)
Resolved(t) == Called(t, "ticker_price")

(* C18: after a successful resolution the ticker and the company are the  *)
(* symbol and the description of the first match of the one resolver       *)
(* response; the quote requests carry that ticker, the news request that   *)
(* company, and the result returns that pair.                              *)
C18_SamePair ==
    \A i \in Invocations :
        Resolved(task[i]) =>
            /\ task[i].ticker = FirstMatch(task[i]).symbol
            /\ task[i].company = FirstMatch(task[i]).description
            /\ task[i].sent.op \in {"ticker_price", "ticker_price_change"}
                  => task[i].sent.arg = FirstMatch(task[i]).symbol
            /\ task[i].sent.op = "ticker_news"
                  => task[i].sent.arg = FirstMatch(task[i]).description
            /\ IsSuccess(task[i].result)
                  => /\ task[i].result.data.ticker = FirstMatch(task[i]).symbol
                     /\ task[i].result.data.company = FirstMatch(task[i]).description

(* A response with two matches was resolved, the news were asked for the   *)
(* first match's company, and the run ended in a Success.                  *)
C18_Witness ==
    \E i \in Invocations :
        /\ Len(task[i].search_data.result) = 2
        /\ Called(task[i], "ticker_news")
        /\ IsSuccess(task[i].result)
        /\ task[i].result.data.company = "APPLE INC"

(* A non-empty list of articles that all have a title. *)
TitledList(v) ==
    /\ v.kind = "list"
    /\ v.items # <<>>
    /\ \A k \in 1..Len(v.items) : v.items[k].title # NoKey

(* C19: ticker_news probes both keys and prefers articles. A non-empty     *)
(* articles list is the one used whatever results holds (and a truthy      *)
(* articles value that cannot be read is a fault, results is not turned    *)
(* to); results is used when articles is absent, null or empty; when both  *)
(* are absent or empty the outcome is the empty-news one.                  *)
C19_PrefersArticles ==
    \A i \in Invocations :
        Returned(task[i], "ticker_news") /\ ~task[i].news_data.fault =>
            LET a == task[i].news_data.articles
                r == task[i].news_data.results
            IN  /\ TitledList(a)
                      => /\ task[i].articles = a.items
                         /\ task[i].news_text = JoinArticles(a.items)
                /\ Truthy(a) /\ ~TitledList(a)
                      => /\ task[i].articles = <<>>
                         /\ task[i].news_text = MarkerNoNews
                /\ NoArticles(a) /\ TitledList(r)
                      => /\ task[i].articles = r.items
                         /\ task[i].news_text = JoinArticles(r.items)
                /\ NoArticles(a) /\ NoArticles(r)
                      => /\ task[i].articles = <<>>
                         /\ task[i].news_text = MarkerNoRecentNews

(* Both keys hold a non-empty list, the two lists differ, and the one      *)
(* under articles was taken.                                               *)
C19_Witness ==
    \E i \in Invocations :
        /\ Returned(task[i], "ticker_news")
        /\ task[i].news_data.articles = KeyList(<<aFull>>)
        /\ task[i].news_data.results = KeyList(<<aNoDescription>>)
        /\ task[i].articles = <<aFull>>
        /\ task[i].news_text = "T1. D1"

(* How many times an invocation has called a stage. *)
Calls(t, op) == Cardinality({k \in 1..Len(t.events) : t.events[k] = CallEv(op)})

Stages ==
    {"identify_ticker", "ticker_price", "ticker_price_change",
     "ticker_news", "summarize_with_groq"}

(* C20: no retries. In every run each stage is called at most once, so     *)
(* each stage sends its provider request at most once, and a stage that    *)
(* has returned is not pending again.                                      *)
C20_NoRetries ==
    \A i \in Invocations :
        /\ \A op \in Stages : Calls(task[i], op) <= 1
        /\ \A op \in Stages : Returned(task[i], op) => task[i].pc # op

(* The symbol search faulted and the run is over with that one call. *)
C20_Witness ==
    \E i \in Invocations :
        /\ task[i].pc = "done"
        /\ task[i].search_data.fault
        /\ Calls(task[i], "identify_ticker") = 1
        /\ task[i].events = <<CallEv("identify_ticker"), RetEv("identify_ticker")>>
        /\ IsFailure(task[i].result)

-----------------------------------------------------------------------------
(* The symbol search faulted: a transport error, a timeout or a body that  *)
(* is not JSON, a count that is no number, or a positive count over a      *)
(* result list that is empty or whose first match lacks a key.             *)
SearchFaulted(t) ==
    /\ Returned(t, "identify_ticker")
    /\ \/ t.search_data.fault
       \/ t.search_data.count.kind \in {"None", "str"}
       \/ /\ t.search_data.count.kind = "num"
          /\ t.search_data.count.val > 0
          /\ \/ t.search_data.result = <<>>
             \/ t.search_data.result[1].symbol = NoKey
             \/ t.search_data.result[1].description = NoKey

(* C21: a fault of the symbol search is folded into the signal of zero     *)
(* matches: identify_ticker returns (None, None), nothing is raised, and   *)
(* analyze_stock_data returns the not-found Failure, with no later call.   *)
C21_SearchFaultNotFound ==
    \A i \in Invocations :
        SearchFaulted(task[i]) =>
            /\ task[i].ticker = NoneStr
            /\ task[i].company = NoneStr
            /\ task[i].pc = "done"
            /\ task[i].result = Failure(MsgNotFound)
            /\ task[i].events = <<CallEv("identify_ticker"), RetEv("identify_ticker")>>

(* A positive count came with a match that has no description. *)
C21_Witness ==
    \E i \in Invocations :
        /\ SearchFaulted(task[i])
        /\ task[i].search_data.result = <<mNoDescription>>
        /\ task[i].result = Failure(MsgNotFound)

-----------------------------------------------------------------------------
(* analyze_stock_data run on its own, start to end, on the query and the   *)
(* provider responses an invocation holds.                                 *)
Replay(t) ==
    LET t0 == StartAnalysis(t.query)
        t1 == AfterIdentifyTicker(t0, t.search_data)
        t2 == IF t1.pc = "ticker_price" THEN AfterTickerPrice(t1, t.price_data) ELSE t1
        t3 == IF t2.pc = "ticker_price_change"
              THEN AfterTickerPriceChange(t2, t.change_data) ELSE t2
        t4 == IF t3.pc = "ticker_news" THEN AfterTickerNews(t3, t.news_data) ELSE t3
    IN  IF t4.pc = "summarize_with_groq" THEN AfterSummarize(t4, t.groq_response) ELSE t4

(* The outcome of every returned invocation is the one its own query and   *)
(* its own responses give, whatever the other invocation did meanwhile.    *)
OutcomeIsOwn ==
    \A i \in Invocations :
        task[i].pc \in {"done", "responded"} /\ task[i].events # <<>>
        => task[i].result = Replay(task[i]).result

(* A step writes the state of at most one invocation and never the         *)
(* configuration.                                                          *)
StepIsOwn ==
    /\ config' = config
    /\ \A i \in Invocations : \A j \in Invocations \ {i} :
           task'[i] # task[i] => task'[j] = task[j]

(* C22: concurrent invocations are independent. For every interleaving    *)
(* the outcome of an invocation is determined by its own query and the     *)
(* responses it received, no step of one invocation changes the state of   *)
(* another, and the configuration set at startup is never written.         *)
C22_Independent == []OutcomeIsOwn /\ [][StepIsOwn]_vars

(* Two invocations in flight at once ended differently: one in a Success,  *)
(* the other in the Failure of its own quote.                              *)
C22_Witness ==
    /\ task[1].pc = "done" /\ IsSuccess(task[1].result)
    /\ task[2].pc = "done" /\ task[2].result = Failure(MsgNoPrice)
    /\ task[1].query = task[2].query

(* C23: the health check answers status "healthy" and, for each of the     *)
(* three credentials, true exactly when the key is set and non-empty,      *)
(* whatever the key's value is otherwise.                                  *)
C23_HealthReportsPresence ==
    health # NoHealth =>
        /\ health.status = "healthy"
        /\ DOMAIN health.apis_configured = {"finnhub", "tavily", "groq"}
        /\ health.apis_configured.finnhub = (config.FINNHUB_API_KEY \notin {NoneStr, ""})
        /\ health.apis_configured.tavily = (config.TAVILY_API_KEY \notin {NoneStr, ""})
        /\ health.apis_configured.groq = (config.GROQ_API_KEY \notin {NoneStr, ""})

(* The health check answered with one key set, one empty and one unset. *)
C23_Witness ==
    /\ health # NoHealth
    /\ config.FINNHUB_API_KEY = "key"
    /\ config.TAVILY_API_KEY = ""
    /\ config.GROQ_API_KEY = NoneStr
    /\ health.apis_configured = [finnhub |-> TRUE, tavily |-> FALSE, groq |-> FALSE]

-----------------------------------------------------------------------------
(* The calls and returns of a run that passes every stage, in order. *)
LinearOrder ==
    <<CallEv("identify_ticker"), RetEv("identify_ticker"),
      CallEv("ticker_price"), RetEv("ticker_price"),
      CallEv("ticker_price_change"), RetEv("ticker_price_change"),
      CallEv("ticker_news"), RetEv("ticker_news"),
      CallEv("summarize_with_groq"), RetEv("summarize_with_groq")>>

(* C24: stage order is strictly linear. The calls and returns of every run *)
(* are a prefix of symbol search, price, price change, news, summarizer,   *)
(* each call made after the return of the one before; at most one call is  *)
(* pending, and it is the one the invocation waits in; a stage is called   *)
(* only when the stage before gave a value; the timestamp of a Success is  *)
(* taken after the summarizer returned.                                    *)
C24_LinearOrder ==
    \A i \in Invocations :
        LET ev == task[i].events
        IN  /\ Len(ev) <= Len(LinearOrder)
            /\ ev = SubSeq(LinearOrder, 1, Len(ev))
            /\ Len(ev) % 2 = 1 <=> task[i].pc \in Stages
            /\ task[i].pc \in Stages => ev[Len(ev)] = CallEv(task[i].pc)
            /\ Called(task[i], "ticker_price") => task[i].ticker \notin {NoneStr, ""}
            /\ Called(task[i], "ticker_price_change") => task[i].price.kind # "None"
            /\ Called(task[i], "ticker_news") => task[i].change.kind # "None"
            /\ IsSuccess(task[i].result)
                  => /\ ev = LinearOrder
                     /\ ev[task[i].result.data.timestamp] = RetEv("summarize_with_groq")

(* A run passed all five stages and returned a Success. *)
C24_Witness ==
    \E i \in Invocations :
        /\ task[i].pc = "done"
        /\ IsSuccess(task[i].result)
        /\ task[i].events = LinearOrder
        /\ task[i].result.data.timestamp = 10

-----------------------------------------------------------------------------
(* The two quote responses an invocation received. *)
QuotesOf(t) == {t.price_data, t.change_data}

(* C25: on every Success the price and the change describe one quote       *)
(* snapshot: one quote response holds the current price p that is returned *)
(* as price and the previous close pc with change = round(p - pc, 2).      *)
C25_OneSnapshot ==
    \A i \in Invocations :
        IsSuccess(task[i].result) =>
            \E quote \in QuotesOf(task[i]) :
                /\ ~quote.fault
                /\ quote.c = task[i].price
                /\ quote.pc.kind = "num"
                /\ task[i].result.data.change = Num(Round2(quote.c.val - quote.pc.val))

-----------------------------------------------------------------------------
(* The value ticker_news takes from the response: what is under articles   *)
(* when that is truthy, what is under results otherwise.                   *)
Taken(t) ==
    IF Truthy(t.news_data.articles) THEN t.news_data.articles ELSE t.news_data.results

(* C26: the news bundle is all-or-nothing and keeps the provider's order.  *)
(* A non-empty list whose articles all have a title gives the text         *)
(* "title. description" of every article, joined by blanks in the order    *)
(* received, and news_articles is the length of the list, however long;    *)
(* one article without a title gives the fault outcome with zero articles. *)
C26_AllOrNothing ==
    \A i \in Invocations :
        Returned(task[i], "ticker_news") /\ ~task[i].news_data.fault
        /\ Taken(task[i]).kind = "list" /\ Taken(task[i]).items # <<>>
        => LET items == Taken(task[i]).items
               whole == /\ task[i].articles = items
                        /\ task[i].news_text = JoinArticles(items)
               nothing == /\ task[i].articles = <<>>
                          /\ task[i].news_text = MarkerNoNews
           IN  /\ IF \A k \in 1..Len(items) : items[k].title # NoKey
                  THEN whole ELSE nothing
               /\ task[i].prompt.news_text = task[i].news_text
               /\ IsSuccess(task[i].result)
                     => task[i].result.data.news_articles = Len(task[i].articles)

(* Six articles came for a request that asked for five: all six are in the *)
(* bundle.                                                                 *)
C26_Witness ==
    \E i \in Invocations :
        /\ task[i].news_data.articles = KeyList(OverLimit)
        /\ IsSuccess(task[i].result)
        /\ task[i].result.data.news_articles = Len(OverLimit)
        /\ task[i].news_text = "T1. D1 T1. D1 T1. D1 T1. D1 T1. D1 T1. D1"

-----------------------------------------------------------------------------
(* A request that went through the pipeline and has its answer. *)
Answered(t) == t.pc = "responded" /\ t.events # <<>>

(* C27: at the endpoint a Failure of the pipeline is answered with status  *)
(* 400 and the pipeline's message as detail, never with the 500 of the     *)
(* catch-all; 500 is answered only when building the response raises; a    *)
(* Success is answered with success = true and the data record.            *)
C27_FailureIs400 ==
    \A i \in Invocations :
        Answered(task[i]) =>
            /\ IsFailure(task[i].result)
                  => /\ task[i].http.status = 400
                     /\ task[i].http.detail = task[i].result.error
            /\ task[i].http.status = 500
                  => /\ IsSuccess(task[i].result)
                     /\ task[i].result.data.company = NoneStr
                     /\ task[i].http.detail = "Internal server error"
            /\ IsSuccess(task[i].result) /\ task[i].result.data.company # NoneStr
                  => /\ task[i].http.status = 200
                     /\ task[i].http.data = task[i].result.data

(* One request was answered 400 with the no-price message while another    *)
(* was answered 500 because its company name is null.                      *)
C27_Witness ==
    \E i \in Invocations : \E j \in Invocations :
        /\ Answered(task[i])
        /\ task[i].result = Failure(MsgNoPrice)
        /\ task[i].http.status = 400
        /\ task[i].http.detail = MsgNoPrice
        /\ Answered(task[j])
        /\ task[j].http.status = 500

====
